---------------------------- MODULE Spec2Model ----------------------------
(***************************************************************************)
(* Model of the customer-support chat backend (src/backend.py): the        *)
(* process-global memory dictionary, the /chat handler with its if-chain   *)
(* of intent branches, the extraction helpers with their language-model    *)
(* fallbacks, and the four tools.                                          *)
(*                                                                         *)
(* Text is a sequence of one-character strings, so that lower(), strip(),  *)
(* split(), the substring test `k in s` and the regular expression         *)
(* \b(\d{5})\b are computed as the code computes them.  Messages are ASCII:*)
(* the keyword tables below hold the ASCII entries of the source tables    *)
(* (an entry with a non-ASCII character is never a substring of an ASCII   *)
(* message).                                                               *)
(*                                                                         *)
(* Every call of client.chat.completions.create is a nondeterministic      *)
(* choice among a set of answers and an exception.  A function of the      *)
(* source is an operator returning the SET of its possible results, each   *)
(* result carrying the handler state (memory and the calls made so far),   *)
(* whether an exception is propagating, and the returned value.            *)
(***************************************************************************)
EXTENDS Integers, Sequences, FiniteSets, TLC

VARIABLES
    products,   \* the catalog loaded from products.json: a list of records
    memory,     \* the process-global memory dictionary
    last,       \* observation of the most recently handled /chat request
    mentioned,  \* names in the most recent product answer (history variable)
    failed,     \* some request so far ended with an exception (history variable)
    nreq,       \* number of /chat requests handled so far
    fin,        \* input of the extraction function under check (SpecExtract)
    fout,       \* its result
    threads,    \* the requests in flight in the thread pool (SpecThreads)
    serial      \* memories the same requests leave when run one after the other
vars == << products, memory, last, mentioned, failed, nreq, fin, fout, threads, serial >>

-----------------------------------------------------------------------------
(* Bounds *)
MaxRequests == 3
MaxChunks == 3
MaxList == 2

-----------------------------------------------------------------------------
(* Python values *)
None == "None"

-----------------------------------------------------------------------------
(* Text: sequences of characters *)
Digits == {"0","1","2","3","4","5","6","7","8","9"}
UpperCase == <<"A","B","C","D","E","F","G","H","I","J","K","L","M",
               "N","O","P","Q","R","S","T","U","V","W","X","Y","Z">>
LowerCase == <<"a","b","c","d","e","f","g","h","i","j","k","l","m",
               "n","o","p","q","r","s","t","u","v","w","x","y","z">>
Whitespace == {" ", "\t", "\n"}

Range(s) == { s[i] : i \in DOMAIN s }

IsDigitChar(c) == c \in Digits
\* \w of the re module: letters, digits and the underscore
IsWordChar(c) == c \in Digits \cup Range(UpperCase) \cup Range(LowerCase) \cup {"_"}

LowerChar(c) ==
    IF c \in Range(UpperCase)
    THEN LowerCase[CHOOSE i \in DOMAIN UpperCase : UpperCase[i] = c]
    ELSE c

\* str.lower()
Lower(s) == [i \in DOMAIN s |-> LowerChar(s[i])]

\* str.strip()
RECURSIVE LStrip(_)
LStrip(s) == IF s # <<>> /\ Head(s) \in Whitespace THEN LStrip(Tail(s)) ELSE s
RECURSIVE RStrip(_)
RStrip(s) ==
    IF s # <<>> /\ s[Len(s)] \in Whitespace
    THEN RStrip(SubSeq(s, 1, Len(s) - 1))
    ELSE s
Strip(s) == RStrip(LStrip(s))

\* str.isdigit(): non-empty and every character a digit
IsDigit(s) == s # <<>> /\ \A i \in DOMAIN s : IsDigitChar(s[i])

\* `k in s` on strings
Contains(s, k) ==
    \E i \in 1..(Len(s) - Len(k) + 1) : SubSeq(s, i, i + Len(k) - 1) = k

\* any(k in s for k in keywords)
AnyIn(keywords, s) == \E j \in DOMAIN keywords : Contains(s, keywords[j])

\* str.split(): the maximal runs of non-whitespace characters
RECURSIVE SplitFrom(_, _, _)
SplitFrom(s, i, cur) ==
    IF i > Len(s)
    THEN IF cur = <<>> THEN <<>> ELSE << cur >>
    ELSE IF s[i] \in Whitespace
         THEN (IF cur = <<>> THEN <<>> ELSE << cur >>) \o SplitFrom(s, i + 1, <<>>)
         ELSE SplitFrom(s, i + 1, Append(cur, s[i]))
Split(s) == SplitFrom(s, 1, <<>>)

\* the Python string a character sequence stands for
RECURSIVE Str(_)
Str(s) == IF s = <<>> THEN "" ELSE Head(s) \o Str(Tail(s))

-----------------------------------------------------------------------------
(* The keyword tables of the source *)
summary_keywords ==
   << <<"s","u","m","m","a","r","i","z","e">>,
      <<"s","u","m","m","a","r","y">>,
      <<"p","r","o","d","u","c","t","s"," ","w","e"," ","t","a","l","k","e","d">>,
      <<"s","u","m","m","a","r","y"," ","o","f">>,
      <<"m","a","d","e"," ","a"," ","s","u","m","m","a","r","y">> >>

product_keywords ==
   << <<"c","a","m","e","r","a">>,
      <<"e","a","r","b","u","d">>,
      <<"e","a","r","b","u","d","s">>,
      <<"s","p","e","a","k","e","r">>,
      <<"c","h","a","r","g","e","r">>,
      <<"h","e","a","d","p","h","o","n","e">>,
      <<"f","i","t","n","e","s","s">>,
      <<"v","i","d","e","o">>,
      <<"s","o","u","n","d">>,
      <<"a","u","d","i","o">>,
      <<"k","u","l","a","k">>,
      <<"s","p","o","r">>,
      <<"k","a","m","e","r","a">>,
      <<"v","i","d","e","o">> >>

order_keywords ==
   << <<"o","r","d","e","r">>,
      <<"t","r","a","c","k">>,
      <<"t","r","a","c","k","i","n","g">>,
      <<"t","a","k","i","p">> >>

refer_words ==
   << <<"i","t">>,
      <<"t","h","i","s">>,
      <<"t","h","a","t">>,
      <<"b","u">> >>

refund_keywords ==
   << <<"r","e","f","u","n","d">>,
      <<"r","e","t","u","r","n">>,
      <<"i","a","d","e">>,
      <<"g","e","r","i">> >>

keyword_map ==
   << << <<"e","a","r","b","u","d">>,
         <<"W","i","r","e","l","e","s","s"," ","E","a","r","b","u","d","s">> >>,
      << <<"e","a","r","b","u","d","s">>,
         <<"W","i","r","e","l","e","s","s"," ","E","a","r","b","u","d","s">> >>,
      << <<"k","u","l","a","k">>,
         <<"W","i","r","e","l","e","s","s"," ","E","a","r","b","u","d","s">> >>,
      << <<"h","e","a","d","p","h","o","n","e">>,
         <<"N","o","i","s","e"," ","C","a","n","c","e","l","l","i","n","g"," ","H","e","a","d","p","h","o","n","e","s">> >>,
      << <<"s","p","e","a","k","e","r">>,
         <<"B","l","u","e","t","o","o","t","h"," ","S","p","e","a","k","e","r"," ","M","i","n","i">> >>,
      << <<"k","a","m","e","r","a">>,
         <<"4","K"," ","A","c","t","i","o","n"," ","C","a","m","e","r","a">> >>,
      << <<"c","a","m","e","r","a">>,
         <<"4","K"," ","A","c","t","i","o","n"," ","C","a","m","e","r","a">> >>,
      << <<"f","i","t","n","e","s","s">>,
         <<"F","i","t","n","e","s","s"," ","T","r","a","c","k","e","r"," ","B","a","n","d">> >>,
      << <<"s","p","o","r">>,
         <<"F","i","t","n","e","s","s"," ","T","r","a","c","k","e","r"," ","B","a","n","d">> >> >>

explicit_language_phrases ==
   << << <<"r","e","s","p","o","n","d"," ","m","e"," ","i","n"," ","a","r","a","b","i","c">>,
         <<"r","e","p","l","y"," ","i","n"," ","a","r","a","b","i","c">>, "Arabic" >>,
      << <<"r","e","s","p","o","n","d"," ","m","e"," ","i","n"," ","t","u","r","k","i","s","h">>,
         <<"r","e","p","l","y"," ","i","n"," ","t","u","r","k","i","s","h">>, "Turkish" >>,
      << <<"r","e","s","p","o","n","d"," ","m","e"," ","i","n"," ","e","n","g","l","i","s","h">>,
         <<"r","e","p","l","y"," ","i","n"," ","e","n","g","l","i","s","h">>, "English" >>,
      << <<"r","e","s","p","o","n","d"," ","m","e"," ","i","n"," ","s","p","a","n","i","s","h">>,
         <<"r","e","p","l","y"," ","i","n"," ","s","p","a","n","i","s","h">>, "Spanish" >> >>

-----------------------------------------------------------------------------
(* Data: products.json, orders.json, return_policy.json *)
N_Earbuds == <<"W","i","r","e","l","e","s","s"," ","E","a","r","b","u","d","s">>
N_Headphones == <<"N","o","i","s","e"," ","C","a","n","c","e","l","l","i","n","g"," ","H","e","a","d","p","h","o","n","e","s">>
N_Speaker == <<"B","l","u","e","t","o","o","t","h"," ","S","p","e","a","k","e","r"," ","M","i","n","i">>
N_Camera == <<"4","K"," ","A","c","t","i","o","n"," ","C","a","m","e","r","a">>
N_Tracker == <<"F","i","t","n","e","s","s"," ","T","r","a","c","k","e","r"," ","B","a","n","d">>
\* a name the language model may invent: it is in no catalog
N_Invented == <<"S","o","l","a","r"," ","D","r","o","n","e">>
KnownNames == { N_Earbuds, N_Headphones, N_Speaker, N_Camera, N_Tracker, N_Invented }

\* the characters of a name held as a string
Chars(name) == CHOOSE c \in KnownNames : Str(c) = name

Product(n, price, stock) == [name |-> Str(n), price |-> price, stock |-> stock]

\* products.json is read at start-up and is not part of the source: the
\* catalog is an input.  FullCatalog holds the five names the source itself
\* mentions (the values of keyword_map); PartialCatalog is a shop that does
\* not sell the last of them.
FullCatalog ==
    << Product(N_Earbuds, "59.99", "In stock"),
       Product(N_Headphones, "129.00", "Out of stock"),
       Product(N_Speaker, "35.50", "In stock"),
       Product(N_Camera, "249.00", "In stock"),
       Product(N_Tracker, "45.00", "In stock") >>
PartialCatalog == SubSeq(FullCatalog, 1, 4)
Catalogs == { FullCatalog, PartialCatalog }

\* [p["name"] for p in products.values()]
Names(plist) == [i \in DOMAIN plist |-> plist[i].name]
InList(x, list) == \E i \in DOMAIN list : list[i] = x

\* orders.json: one known order
KnownOrderId == "12345"
orders == [id \in {KnownOrderId} |-> [status |-> "Shipped", delivery_date |-> "2025-01-10"]]
return_policy == [policy |-> "Returns are accepted within 14 days."]

-----------------------------------------------------------------------------
(* The handler state threaded through every function, and results *)

NoData == [type |-> "none"]

\* memory as the module leaves it after import (backend.py lines 38-43)
InitMemory ==
    [conversation_products |-> <<>>,
     order_product |-> None,
     last_intent |-> None,
     last_order_id |-> None]

\* state at the start of a request: the memory, and nothing called yet
State0(mem) ==
    [mem |-> mem,
     calls |-> <<>>,        \* functions entered and model calls made, in order
     branch |-> "",         \* the section of chat that answered
     tool |-> "",           \* the tool chat dispatched to
     tool_ret |-> NoData,   \* what that tool returned
     nf_arg |-> NoData,     \* tool_data passed to natural_format
     nf_ret |-> None,       \* what natural_format returned
     referent |-> None,     \* product the referential branch resolved to
     extracted |-> None,    \* what extract_order_id returned
     ctx_product |-> None,  \* what extract_product_from_order_context returned
     shown |-> {}]          \* names in the latest product answer of this request

Ok(st, v) == [raised |-> FALSE, exc |-> "", st |-> st, ret |-> v]
Raise(st, e) == [raised |-> TRUE, exc |-> e, st |-> st, ret |-> None]
\* (the calls of natural_format's own helpers are not listed: fn = "")
Called(st, fn) == IF fn = "" THEN st ELSE [st EXCEPT !.calls = Append(@, fn)]
Count(calls, fn) == Cardinality({ i \in DOMAIN calls : calls[i] = fn })

\* run F on every result of S that returned; an exception propagates
Then(S, F(_)) == UNION { IF r.raised THEN { r } ELSE F(r) : r \in S }

\* client.chat.completions.create(...): one of the answers, or an exception
\* (network failure, rate limit, authentication)
LLM(st, caller, answers) ==
    { Ok(Called(st, caller), a) : a \in answers }
        \cup { Raise(Called(st, caller), "APIError") }

-----------------------------------------------------------------------------
(* Answers the language model may give *)
A_12345 == <<"1","2","3","4","5">>
A_NONE == <<"N","O","N","E">>
A_1234 == <<"1","2","3","4">>
A_123456 == <<"1","2","3","4","5","6">>
A_padded == <<" ","5","4","3","2","1","\n">>
A_YES == <<"Y","E","S">>
A_No == <<"N","o">>
A_yes_nl == <<"y","e","s","\n">>

YesNoAnswers == { A_YES, A_No, A_yes_nl }
OrderIdAnswers == { A_12345, A_NONE, A_1234, A_123456, A_padded }
ProductCtxAnswers == { N_Camera, N_Tracker, N_Invented, A_NONE, <<" ">> \o N_Earbuds }

-----------------------------------------------------------------------------
(* ORDER ID EXTRACTION (regex + LLM fallback) *)

IsWordAt(s, i) == i \in DOMAIN s /\ IsWordChar(s[i])
\* \b before position i: exactly one of s[i-1], s[i] is a word character
WordBoundary(s, i) == IsWordAt(s, i - 1) # IsWordAt(s, i)
\* \b(\d{5})\b matches at position i
MatchAt(s, i) ==
    /\ i + 4 <= Len(s)
    /\ WordBoundary(s, i)
    /\ \A j \in i..(i + 4) : IsDigitChar(s[j])
    /\ WordBoundary(s, i + 5)

\* re.findall(r"\b(\d{5})\b", msg): leftmost non-overlapping matches
RECURSIVE FindAllFrom(_, _)
FindAllFrom(s, i) ==
    IF i > Len(s) THEN <<>>
    ELSE IF MatchAt(s, i)
         THEN << SubSeq(s, i, i + 4) >> \o FindAllFrom(s, i + 5)
         ELSE FindAllFrom(s, i + 1)
re_findall(s) == FindAllFrom(s, 1)

\* variant: the model's answer is accepted whenever it is all digits
extract_order_id_AnyLength(st, msg) ==
    LET ids == re_findall(msg) IN
    IF ids # <<>>
    THEN { Ok(st, Str(ids[1])) }
    ELSE Then(LLM(st, "llm:extract_order_id", OrderIdAnswers),
              LAMBDA r :
                 LET ans == Strip(r.ret) IN
                 { Ok(r.st, IF IsDigit(ans) THEN Str(ans) ELSE None) })

extract_order_id(st, msg) ==
    LET ids == re_findall(msg) IN
    IF ids # <<>>
    THEN { Ok(st, Str(ids[1])) }
    ELSE Then(LLM(st, "llm:extract_order_id", OrderIdAnswers),
              LAMBDA r :
                 LET ans == Strip(r.ret) IN
                 { Ok(r.st, IF IsDigit(ans) /\ Len(ans) = 5 THEN Str(ans) ELSE None) })

-----------------------------------------------------------------------------
(* PRODUCT EXTRACTION FOR ORDER-CONTEXT (hybrid) *)

Min(S) == CHOOSE x \in S : \A y \in S : x <= y

extract_product_from_order_context(st, msg) ==
    LET lowered == Lower(msg)
        direct == { i \in DOMAIN products :
                      Contains(lowered, Lower(Chars(products[i].name))) }
        hits == { j \in DOMAIN keyword_map : Contains(lowered, keyword_map[j][1]) }
        options == Names(products)
    IN
    IF direct # {}
    THEN { Ok(st, products[Min(direct)].name) }
    ELSE IF hits # {}
    THEN { Ok(st, Str(keyword_map[Min(hits)][2])) }
    ELSE Then(LLM(st, "llm:extract_product_from_order_context", ProductCtxAnswers),
              LAMBDA r :
                 LET ans == Str(Strip(r.ret)) IN
                 { Ok(r.st, IF InList(ans, options) THEN ans ELSE None) })

-----------------------------------------------------------------------------
(* What the language model may answer to the product explorer.  The answer *)
(* is modelled after json.loads: text that is no JSON, JSON that is no     *)
(* object, or an object with optional "category" and "products" keys whose *)
(* items are objects with an optional "name" key.                          *)

\* items the model may put in "products", for the catalog it was shown
ItemPool ==
    { products[1],                                    \* a catalog entry, as is
      products[2],
      Product(N_Invented, "999.00", "In stock") }     \* an invented product
\* an item without a "name" key
Nameless == [price |-> "10.00", stock |-> "In stock"]

RECURSIVE ListsUpTo(_)
ListsUpTo(n) ==
    IF n = 0 THEN { <<>> }
    ELSE LET L == ListsUpTo(n - 1) IN L \cup { Append(l, x) : l \in L, x \in ItemPool }

ExplorerAnswers ==
    { [kind |-> "text"], [kind |-> "array"],
      [kind |-> "object", data |-> [category |-> "Audio"]] }
    \cup { [kind |-> "object", data |-> [category |-> "Audio", products |-> l]] :
              l \in ListsUpTo(MaxList) }
    \cup { [kind |-> "object", data |-> [products |-> << products[2] >>]],
           [kind |-> "object",
            data |-> [category |-> "Audio", products |-> << products[2], Nameless >>]] }

ChoiceAnswers == { Lower(N_Headphones) \o <<"\n">>, A_NONE }
ProseAnswers == { "prose" }
IsoCodes == { "en", "tr", "ar", "es", "de" }
LanguageAnswers == { "Turkish", "Other" }

-----------------------------------------------------------------------------
(* Memory updates *)

\* if name not in memory["conversation_products"]: ....append(name)
\* an append without the `not in` test
AppendAlways(conv, name) == Append(conv, name)

\* if name not in memory["conversation_products"]: ...append(name)
AppendNew(conv, name) == IF InList(name, conv) THEN conv ELSE Append(conv, name)
Discuss(st, name) ==
    [st EXCEPT !.mem.conversation_products = AppendNew(@, name)]
\* history: the names the product answer being returned holds
Show(st, plist) == [st EXCEPT !.shown = Range(Names(plist))]

\* for p in items: name = p["name"]; append if new.  Stops at the first item
\* without a name (KeyError), keeping what was appended before it.
RECURSIVE DiscussAll(_, _, _)
DiscussAll(st, items, i) ==
    IF i > Len(items) THEN [st |-> st, key_error |-> FALSE]
    ELSE IF "name" \notin DOMAIN items[i] THEN [st |-> st, key_error |-> TRUE]
    ELSE DiscussAll(Discuss(st, items[i].name), items, i + 1)

-----------------------------------------------------------------------------
(* FULL AI PRODUCT EXPLORER *)

\* the except: branch (lines 293-304): return everything
ExplorerFallback(st) ==
    Ok(Show(DiscussAll(st, products, 1).st, products),
       [type |-> "product_list", category |-> "All Products", products |-> products])

\* the try: block (lines 277-291) on the model's answer
ExplorerParse(st, raw) ==
    IF raw.kind = "text"
    THEN ExplorerFallback(st)                       \* json.loads raises
    ELSE LET st1 == [st EXCEPT !.mem.last_intent = "product"] IN
         IF raw.kind # "object"
         THEN ExplorerFallback(st1)                 \* data.get raises
         ELSE LET data == raw.data
                  plist == IF "products" \in DOMAIN data THEN data.products ELSE <<>>
                  loop == DiscussAll(st1, plist, 1)
              IN IF loop.key_error
                 THEN ExplorerFallback(loop.st)     \* p["name"] raises
                 ELSE Ok(Show(loop.st, plist),
                         [type |-> "product_list",
                          category |-> IF "category" \in DOMAIN data
                                       THEN data.category ELSE "Products",
                          products |-> plist])

tool_ai_product_explorer(st, query) ==
    Then(LLM(Called(st, "tool_ai_product_explorer"),
             "llm:tool_ai_product_explorer", ExplorerAnswers),
         LAMBDA r : { ExplorerParse(r.st, r.ret) })

-----------------------------------------------------------------------------
(* HYBRID PRODUCT LOOKUP *)

ProductInfo(p) ==
    [type |-> "product_info", name |-> p.name, price |-> p.price, stock |-> p.stock]

\* lines 329-370: several results (or none): let the model choose one
ChooseOne(st, result, answer) ==
    LET choice == Strip(answer)
        same == { i \in DOMAIN result.products :
                    Lower(Chars(result.products[i].name)) = Lower(choice) }
    IN
    IF same # {}
    THEN LET p == result.products[Min(same)] IN
         Ok(Show(Discuss(st, p.name), << p >>), ProductInfo(p))
    ELSE IF result.products = <<>>
    THEN Raise(st, "IndexError")                    \* result["products"][0]
    ELSE LET p == result.products[1] IN
         Ok(Show(Discuss(st, p.name), << p >>), ProductInfo(p))

tool_product_lookup(st, query) ==
    Then(tool_ai_product_explorer(Called(st, "tool_product_lookup"), query),
         LAMBDA e :
            LET result == e.ret IN
            IF Len(result.products) = 1
            THEN LET p == result.products[1] IN
                 { Ok(Show(Discuss(e.st, p.name), << p >>), ProductInfo(p)) }
            ELSE Then(LLM(e.st, "llm:tool_product_lookup", ChoiceAnswers),
                      LAMBDA c : { ChooseOne(c.st, result, c.ret) }))

-----------------------------------------------------------------------------
(* ORDER LOOKUP, REFUND POLICY *)

\* an order lookup that records only the orders it finds
tool_order_lookup_KnownOnly(st, order_id) ==
    IF order_id \in DOMAIN orders
    THEN { Ok([Called(st, "tool_order_lookup") EXCEPT
                  !.mem.last_intent = "order", !.mem.last_order_id = order_id],
              [type |-> "order_info", order_id |-> order_id,
               status |-> orders[order_id].status,
               delivery |-> orders[order_id].delivery_date]) }
    ELSE { Ok(Called(st, "tool_order_lookup"),
              [type |-> "order_info", error |-> "Order not found"]) }

tool_order_lookup(st, order_id) ==
    LET st1 == [Called(st, "tool_order_lookup") EXCEPT
                   !.mem.last_intent = "order",
                   !.mem.last_order_id = order_id]
    IN
    IF order_id \in DOMAIN orders
    THEN { Ok(st1, [type |-> "order_info", order_id |-> order_id,
                    status |-> orders[order_id].status,
                    delivery |-> orders[order_id].delivery_date]) }
    ELSE { Ok(st1, [type |-> "order_info", error |-> "Order not found"]) }

tool_refund_policy(st) ==
    { Ok([Called(st, "tool_refund_policy") EXCEPT !.mem.last_intent = "refund"],
         [type |-> "refund_policy", policy |-> return_policy.policy]) }

-----------------------------------------------------------------------------
(* LANGUAGE DETECTION, NATURAL FORMATTER *)

detect_explicit_language_request(msg) ==
    LET lowered == Lower(msg)
        forced == { i \in DOMAIN explicit_language_phrases :
                      \/ Contains(lowered, explicit_language_phrases[i][1])
                      \/ Contains(lowered, explicit_language_phrases[i][2]) }
    IN IF forced = {} THEN None ELSE explicit_language_phrases[Min(forced)][3]

\* lines 72-76: the ISO code lang_detect returned, as a language name
IsoLanguage(lang) ==
    CASE lang = "en" -> "English"
      [] lang = "tr" -> "Turkish"
      [] lang = "ar" -> "Arabic"
      [] lang = "es" -> "Spanish"
      [] OTHER -> "English"

detect_language(st, msg) ==
    LET forced == detect_explicit_language_request(msg) IN
    IF forced # None
    THEN { Ok(st, forced) }
    ELSE { Ok(st, IsoLanguage(lang)) : lang \in IsoCodes }
         \cup  \* lang_detect raises: ask the model, outside any try
         Then(LLM(st, "", LanguageAnswers),
              LAMBDA r :
                 { Ok(r.st, IF r.ret \notin {"English", "Turkish", "Arabic", "Spanish"}
                            THEN "English" ELSE r.ret) })

natural_format(st, user_msg, tool_data) ==
    Then(detect_language([Called(st, "natural_format") EXCEPT !.nf_arg = tool_data],
                         user_msg),
         LAMBDA l :
            Then(LLM(l.st, "llm:natural_format", ProseAnswers),
                 LAMBDA r : { Ok([r.st EXCEPT !.nf_ret = r.ret], r.ret) }))
-----------------------------------------------------------------------------
(* AI TOPIC RECALL DETECTOR, ORDER ID MISSING *)

A_yes == <<"y","e","s">>

ai_topic_recall(st, msg) ==
    Then(LLM(st, "llm:ai_topic_recall", YesNoAnswers),
         LAMBDA r : { Ok(r.st, Lower(Strip(r.ret)) = A_yes) })

ai_order_id_missing(st, msg) ==
    Then(LLM(st, "llm:ai_order_id_missing", YesNoAnswers),
         LAMBDA r : { Ok(r.st, Lower(Strip(r.ret)) = A_yes) })

-----------------------------------------------------------------------------
(* MAIN AGENT: the /chat handler, section by section, last section first *)

\* a handler that replies with the tool's data as it is
ReplyUnformatted(S, user) ==
    Then(S, LAMBDA t : { Ok([t.st EXCEPT !.tool_ret = t.ret], [reply |-> "data"]) })

\* return {"reply": natural_format(user, data)} for every result of a tool
ReplyFormatted(S, user) ==
    Then(S, LAMBDA t :
        Then(natural_format([t.st EXCEPT !.tool_ret = t.ret], user, t.ret),
             LAMBDA f : { Ok(f.st, [reply |-> f.ret]) }))

Enter(st, section) == [st EXCEPT !.branch = section]
Dispatch(st, section, fname) == [st EXCEPT !.branch = section, !.tool = fname]

\* what the router may answer (lines 652-710)
Query == "query"
RouterAnswers ==
    { [finish_reason |-> "stop", content |-> "How can I help you?"],
      [finish_reason |-> "tool_calls", content |-> None,
       fname |-> "tool_ai_product_explorer", args |-> [query |-> Query]],
      [finish_reason |-> "tool_calls", content |-> None,
       fname |-> "tool_ai_product_explorer", args |-> [q |-> Query]],
      [finish_reason |-> "tool_calls", content |-> None,
       fname |-> "tool_product_lookup", args |-> [query |-> Query]],
      [finish_reason |-> "tool_calls", content |-> None,
       fname |-> "tool_order_lookup", args |-> [order_id |-> KnownOrderId]],
      [finish_reason |-> "tool_calls", content |-> None,
       fname |-> "tool_order_lookup", args |-> [order_id |-> "54321"]],
      [finish_reason |-> "tool_calls", content |-> None,
       fname |-> "tool_refund_policy", args |-> [none |-> None]],
      [finish_reason |-> "tool_calls", content |-> None,
       fname |-> "get_weather", args |-> [none |-> None]] }

\* (I) FALLBACK RESPONSE
chat_I(st, user, choice) ==
    { Ok(Enter(st, "I"), [reply |-> choice.content]) }

\* (H) TOOL EXECUTION
chat_H(st, user, choice) ==
    IF choice.finish_reason # "tool_calls" THEN chat_I(st, user, choice)
    ELSE LET fname == choice.fname
             args == choice.args
         IN
         IF fname = "tool_ai_product_explorer"
         THEN IF "query" \notin DOMAIN args
              THEN { Raise(Dispatch(st, "H", fname), "KeyError") }
              ELSE ReplyFormatted(
                      tool_ai_product_explorer(Dispatch(st, "H", fname), args.query), user)
         ELSE IF fname = "tool_product_lookup"
         THEN IF "query" \notin DOMAIN args
              THEN { Raise(Dispatch(st, "H", fname), "KeyError") }
              ELSE ReplyFormatted(
                      tool_product_lookup(Dispatch(st, "H", fname), args.query), user)
         ELSE IF fname = "tool_order_lookup"
         THEN IF "order_id" \notin DOMAIN args
              THEN { Raise(Dispatch(st, "H", fname), "KeyError") }
              ELSE ReplyFormatted(
                      tool_order_lookup(Dispatch(st, "H", fname), args.order_id), user)
         ELSE IF fname = "tool_refund_policy"
         THEN ReplyFormatted(tool_refund_policy(Dispatch(st, "H", fname)), user)
         ELSE chat_I(st, user, choice)

\* (G) AI ROUTER
chat_G(st, user) ==
    Then(LLM(st, "llm:router", RouterAnswers),
         LAMBDA r : chat_H(r.st, user, r.ret))

\* (F) REFUND POLICY
chat_F(st, user, lower) ==
    LET st1 == Called(st, "refund_keywords") IN
    IF AnyIn(refund_keywords, lower)
    THEN ReplyFormatted(tool_refund_policy(Dispatch(st1, "F", "tool_refund_policy")), user)
    ELSE chat_G(st1, user)

\* lines 606-623: the user does not know the order ID
OrderIdMissing(st, user) ==
    Then(extract_product_from_order_context(Enter(st, "E"), user),
         LAMBDA x :
            LET product_name == x.ret
                st1 == [x.st EXCEPT !.ctx_product = product_name]
            IN
            IF product_name # None
            THEN LET st2 == [st1 EXCEPT !.mem.order_product = product_name,
                                        !.shown = { product_name }]
                     found == { i \in DOMAIN products : products[i].name = product_name }
                 IN IF found = {}
                    THEN { Raise(st2, "StopIteration") }     \* next(...) of nothing
                    ELSE ReplyFormatted({ Ok(st2, ProductInfo(products[Min(found)])) }, user)
            ELSE ReplyFormatted(
                    { Ok(st1, [type |-> "info",
                               message |-> "Please check your email for your order confirmation ID."]) },
                    user))

\* (E) ORDER-ID-MISSING FLOW
chat_E(st, user, lower) ==
    IF st.mem.last_intent = "order"
    THEN Then(ai_order_id_missing(st, user),
              LAMBDA m : IF m.ret THEN OrderIdMissing(m.st, user)
                         ELSE chat_F(m.st, user, lower))
    ELSE chat_F(st, user, lower)

\* a handler that looks at the refund keywords before the order ID
chat_D_RefundFirst(st, user, lower) ==
    IF AnyIn(refund_keywords, lower)
    THEN chat_F(st, user, lower)
    ELSE Then(extract_order_id(st, user),
              LAMBDA x :
                 LET st1 == [x.st EXCEPT !.extracted = x.ret] IN
                 IF x.ret # None
                 THEN ReplyFormatted(
                         tool_order_lookup(Dispatch(st1, "D", "tool_order_lookup"), x.ret),
                         user)
                 ELSE chat_E(st1, user, lower))

\* (D) ORDER ID EXTRACTION
chat_D(st, user, lower) ==
    Then(extract_order_id(st, user),
         LAMBDA x :
            LET extracted_id == x.ret
                st1 == [x.st EXCEPT !.extracted = extracted_id]
            IN
            IF extracted_id # None
            THEN ReplyFormatted(
                    tool_order_lookup(Dispatch(st1, "D", "tool_order_lookup"), extracted_id),
                    user)
            ELSE chat_E(st1, user, lower))

\* (C) REFERENTIAL MEMORY
chat_C(st, user, lower) ==
    LET tokens == Split(lower) IN
    IF \E i \in DOMAIN refer_words : InList(refer_words[i], tokens)
    THEN IF st.mem.order_product # None
         THEN LET q == st.mem.order_product IN
              ReplyFormatted(
                 tool_product_lookup(
                    [Dispatch(st, "C", "tool_product_lookup") EXCEPT !.referent = q], q),
                 user)
         ELSE IF st.mem.conversation_products # <<>>
         THEN LET conv == st.mem.conversation_products
                  last_product == conv[Len(conv)]
              IN
              ReplyFormatted(
                 tool_product_lookup(
                    [Dispatch(st, "C", "tool_product_lookup") EXCEPT !.referent = last_product],
                    last_product),
                 user)
         ELSE chat_D(st, user, lower)
    ELSE chat_D(st, user, lower)

\* (B) TOPIC RECALL
chat_B(st, user, lower) ==
    Then(ai_topic_recall(st, user),
         LAMBDA w :
            IF w.ret /\ ~AnyIn(product_keywords \o order_keywords, lower)
            THEN IF w.st.mem.conversation_products # <<>>
                 THEN LET conv == w.st.mem.conversation_products
                          last_product == conv[Len(conv)]
                      IN ReplyFormatted(
                            tool_product_lookup(
                               Dispatch(w.st, "B", "tool_product_lookup"), last_product),
                            user)
                 ELSE ReplyFormatted(
                         { Ok(Enter(w.st, "B"), [type |-> "summary", products |-> <<>>]) },
                         user)
            ELSE chat_C(w.st, user, lower))

\* a summary that reports every discussed name, in the catalog or not
ProductSummary_Unfiltered(items, i) ==
    [k \in DOMAIN items |-> [name |-> items[k], price |-> None, stock |-> None]]

\* lines 491-499: the catalog entries of the discussed names, in list order
RECURSIVE ProductSummary(_, _)
ProductSummary(items, i) ==
    IF i > Len(items) THEN <<>>
    ELSE LET hit == SelectSeq(products, LAMBDA p : p.name = items[i]) IN
         [k \in DOMAIN hit |->
             [name |-> hit[k].name, price |-> hit[k].price, stock |-> hit[k].stock]]
         \o ProductSummary(items, i + 1)

\* (A) SUMMARY INTENT
chat_A(st, user, lower) ==
    IF AnyIn(summary_keywords, lower)
    THEN LET items == st.mem.conversation_products
             summary_data == [type |-> "summary", products |-> ProductSummary(items, 1)]
         IN ReplyFormatted({ Ok(Enter(st, "A"), summary_data) }, user)
    ELSE chat_B(st, user, lower)

chat(mem, message) ==
    LET user == message
        lower == Lower(user)
    IN chat_A(State0(mem), user, lower)

-----------------------------------------------------------------------------
(* The /chat endpoint handling requests one after the other *)

Messages ==
   { <<"s","u","m","m","a","r","i","z","e"," ","i","t">>,
     <<"w","h","a","t"," ","a","b","o","u","t"," ","i","t">>,
     <<"h","e","l","l","o">>,
     <<"r","e","f","u","n","d"," ","1","2","3","4","5">>,
     <<"R","e","t","u","r","n"," ","5","4","3","2","1","?">>,
     <<"f","o","r","g","o","t"," ","m","y"," ","o","r","d","e","r"," ","i","d"," ","c","a","m","e","r","a">>,
     <<"r","e","f","u","n","d"," ","p","l","e","a","s","e"," ","r","e","p","l","y"," ","i","n"," ","t","u","r","k","i","s","h">> }

\* what is observed of a handled request
Observation(message, before, r) ==
    [msg |-> message,
     text |-> Str(message),
     mem_before |-> before,
     mentioned_before |-> mentioned,
     failed_before |-> failed,
     raised |-> r.raised,
     exc |-> r.exc,
     reply |-> IF r.raised THEN None ELSE r.ret.reply,
     calls |-> r.st.calls,
     branch |-> r.st.branch,
     tool |-> r.st.tool,
     tool_ret |-> r.st.tool_ret,
     nf_arg |-> r.st.nf_arg,
     nf_ret |-> r.st.nf_ret,
     referent |-> r.st.referent,
     extracted |-> r.st.extracted,
     ctx_product |-> r.st.ctx_product]

NoRequest ==
    [msg |-> <<>>, text |-> "", mem_before |-> InitMemory, mentioned_before |-> {},
     failed_before |-> FALSE,
     raised |-> FALSE, exc |-> "", reply |-> None, calls |-> <<>>,
     branch |-> "none", tool |-> "", tool_ret |-> NoData, nf_arg |-> NoData,
     nf_ret |-> None, referent |-> None, extracted |-> None, ctx_product |-> None]
NoResult == [fn |-> "none", raised |-> FALSE, exc |-> "", ret |-> None, calls |-> <<>>]

\* Sequences of requests are explored for the full catalog; the one step of
\* chat that depends on what the catalog holds (lines 606-623) is explored
\* for every catalog under SpecExtract.
Init ==
    /\ products = FullCatalog
    /\ memory = InitMemory
    /\ last = NoRequest
    /\ mentioned = {}
    /\ failed = FALSE
    /\ nreq = 0
    /\ fin = <<>>
    /\ fout = NoResult
    /\ threads = << >>
    /\ serial = {}

\* POST /chat: the whole handler, on one message.  Requests are handled one
\* after the other: the next one starts when the response has left.
Chat ==
    /\ last = NoRequest
    /\ nreq < MaxRequests
    /\ \E message \in Messages :
          \E r \in chat(memory, message) :
             /\ memory' = r.st.mem
             /\ last' = Observation(message, memory, r)
             /\ mentioned' = IF r.st.shown # {} THEN r.st.shown ELSE mentioned
             /\ failed' = (failed \/ r.raised)
    /\ nreq' = nreq + 1
    /\ UNCHANGED << products, fin, fout, threads, serial >>

\* the response (or the error page) has been sent: the observation of the
\* request is dropped, the memory stays
Respond ==
    /\ last # NoRequest
    /\ last' = NoRequest
    /\ UNCHANGED << products, memory, mentioned, failed, nreq, fin, fout, threads, serial >>

Next == Chat \/ Respond
Spec == Init /\ [][Next]_vars

-----------------------------------------------------------------------------
(* The /chat endpoint under the thread pool.  chat is a plain `def`, so the *)
(* server runs each request on a worker thread and two requests interleave  *)
(* between any two accesses of the shared memory dictionary.  A step of a   *)
(* thread is one access of memory followed by the thread's own computation  *)
(* (tests on the message, calls of the model) up to its next access.        *)
(* natural_format does not touch memory: a thread is done once its last     *)
(* access is made or an exception ends it.                                  *)

ThreadIds == { 1, 2 }
ThreadMessages ==
   { <<"s","u","m","m","a","r","i","z","e"," ","i","t">>,
     <<"w","h","a","t"," ","a","b","o","u","t"," ","i","t">>,
     <<"h","e","l","l","o">>,
     <<"r","e","f","u","n","d"," ","1","2","3","4","5">> }

\* a thread: where it is (the access it makes next), the value it is about to
\* write or test, the names the explorer loop still has to go through, whether
\* the except-branch loop is still to come, the names of the explorer's
\* result, and who called the explorer
NewThread(message) ==
    [pc |-> "begin", msg |-> message, arg |-> None, todo |-> <<>>,
     fallback |-> FALSE, cand |-> <<>>, after |-> "done"]
Done(th) == [NewThread(th.msg) EXCEPT !.pc = "done"]
At(th, pc, arg) == [th EXCEPT !.pc = pc, !.arg = arg]

\* the names of the items before the first item without a name
RECURSIVE NamesBefore(_)
NamesBefore(items) ==
    IF items = <<>> \/ "name" \notin DOMAIN Head(items) THEN <<>>
    ELSE << Head(items).name >> \o NamesBefore(Tail(items))

\* tool_product_lookup after the explorer returned (lines 314-370), up to
\* its `if p["name"] not in memory[...]`
FlowLookup(th) ==
    LET names == th.cand
        one(n) == [At(th, "check", n) EXCEPT !.todo = << n >>, !.after = "done"]
    IN
    IF Len(names) = 1 THEN { one(names[1]) }
    ELSE { Done(th) }                                        \* the API raises
         \cup { LET same == { i \in DOMAIN names :
                                Lower(Chars(names[i])) = Lower(Strip(a)) }
                IN IF same # {} THEN one(names[Min(same)])
                   ELSE IF names = <<>> THEN Done(th)        \* IndexError
                   ELSE one(names[1]) : a \in ChoiceAnswers }

\* the head of the explorer's loops (lines 282 and 295)
FlowLoop(th) ==
    IF th.todo # <<>> THEN { At(th, "check", Head(th.todo)) }
    ELSE IF th.fallback
    THEN { [At(th, "check", products[1].name) EXCEPT
               !.todo = Names(products), !.cand = Names(products),
               !.fallback = FALSE] }
    ELSE IF th.after = "lookup" THEN FlowLookup(th)
    ELSE { Done(th) }

\* tool_ai_product_explorer from its entry to its first access of memory
FlowExplorer(th, caller) ==
    { Done(th) }                                             \* the API raises
    \cup UNION {
        IF a.kind = "text"
        THEN FlowLoop([th EXCEPT !.after = caller, !.fallback = TRUE])
        ELSE IF a.kind # "object"
        THEN { [At(th, "explorer_set_intent", "product") EXCEPT
                   !.after = caller, !.fallback = TRUE] }
        ELSE LET plist == IF "products" \in DOMAIN a.data THEN a.data.products ELSE <<>>
                 names == NamesBefore(plist)
             IN { [At(th, "explorer_set_intent", "product") EXCEPT
                      !.after = caller,
                      !.todo = names,
                      !.cand = names,
                      !.fallback = (Len(names) < Len(plist))] }
        : a \in ExplorerAnswers }

\* sections (G), (H)
FlowRouter(th) ==
    { Done(th) }                                             \* the API raises
    \cup UNION {
        IF c.finish_reason # "tool_calls" THEN { Done(th) }
        ELSE IF c.fname = "tool_ai_product_explorer"
        THEN IF "query" \in DOMAIN c.args THEN FlowExplorer(th, "done") ELSE { Done(th) }
        ELSE IF c.fname = "tool_product_lookup"
        THEN IF "query" \in DOMAIN c.args THEN FlowExplorer(th, "lookup") ELSE { Done(th) }
        ELSE IF c.fname = "tool_order_lookup"
        THEN IF "order_id" \in DOMAIN c.args
             THEN { At(th, "order_set_intent", c.args.order_id) } ELSE { Done(th) }
        ELSE IF c.fname = "tool_refund_policy"
        THEN { At(th, "refund_set_intent", "refund") }
        ELSE { Done(th) }
        : c \in RouterAnswers }

\* section (F)
FlowF(th) ==
    IF AnyIn(refund_keywords, Lower(th.msg))
    THEN { At(th, "refund_set_intent", "refund") }
    ELSE FlowRouter(th)

\* section (D), up to tool_order_lookup's first write or section (E)'s read
FlowD(th) ==
    { IF r.raised THEN Done(th)
      ELSE IF r.ret # None THEN At(th, "order_set_intent", r.ret)
      ELSE At(th, "E_read_intent", None)
      : r \in extract_order_id(State0(InitMemory), th.msg) }

\* section (C), up to its first read
FlowC(th) ==
    IF \E i \in DOMAIN refer_words : InList(refer_words[i], Split(Lower(th.msg)))
    THEN { At(th, "C_read_order_product", None) }
    ELSE FlowD(th)

\* sections (A) and (B), up to the first read of memory
FlowBegin(th) ==
    LET lower == Lower(th.msg) IN
    IF AnyIn(summary_keywords, lower)
    THEN { At(th, "A_read_items", None) }
    ELSE { Done(th) }                                        \* the API raises
         \cup UNION {
            IF Lower(Strip(a)) = A_yes /\ ~AnyIn(product_keywords \o order_keywords, lower)
            THEN { At(th, "B_read_conv", None) }
            ELSE FlowC(th)
            : a \in YesNoAnswers }

\* section (E) after `memory["last_intent"] == "order"` was found true
FlowOrderIdMissing(th) ==
    { Done(th) }                                             \* the API raises
    \cup UNION {
        IF Lower(Strip(a)) = A_yes
        THEN { IF r.raised \/ r.ret = None THEN Done(th)
               ELSE At(th, "E_set_order_product", r.ret)
               : r \in extract_product_from_order_context(State0(InitMemory), th.msg) }
        ELSE FlowF(th)
        : a \in YesNoAnswers }

\* one step of thread t: the access at th.pc, then on to the next access.
\* The result is the set of << memory', thread' >>.
ThreadStep(mem, th) ==
    LET conv == mem.conversation_products
        keep(S) == { << mem, x >> : x \in S }
        rest == [th EXCEPT !.todo = Tail(th.todo)]
    IN
    CASE th.pc = "begin" -> keep(FlowBegin(th))
      [] th.pc = "A_read_items" -> keep({ Done(th) })
      [] th.pc = "B_read_conv" ->
            keep(IF conv # <<>> THEN FlowExplorer(th, "lookup") ELSE { Done(th) })
      [] th.pc = "C_read_order_product" ->
            keep(IF mem.order_product # None THEN FlowExplorer(th, "lookup")
                 ELSE { At(th, "C_read_conv", None) })
      [] th.pc = "C_read_conv" ->
            keep(IF conv # <<>> THEN FlowExplorer(th, "lookup") ELSE FlowD(th))
      [] th.pc = "E_read_intent" ->
            keep(IF mem.last_intent = "order" THEN FlowOrderIdMissing(th) ELSE FlowF(th))
      [] th.pc = "E_set_order_product" ->
            { << [mem EXCEPT !.order_product = th.arg], Done(th) >> }
      [] th.pc = "order_set_intent" ->
            { << [mem EXCEPT !.last_intent = "order"], At(th, "order_set_id", th.arg) >> }
      [] th.pc = "order_set_id" ->
            { << [mem EXCEPT !.last_order_id = th.arg], Done(th) >> }
      [] th.pc = "refund_set_intent" ->
            { << [mem EXCEPT !.last_intent = "refund"], Done(th) >> }
      [] th.pc = "explorer_set_intent" ->
            { << [mem EXCEPT !.last_intent = "product"], x >> : x \in FlowLoop(th) }
      [] th.pc = "check" ->           \* if name not in memory["conversation_products"]
            keep(IF InList(th.arg, conv) THEN FlowLoop(rest)
                 ELSE { At(th, "append", th.arg) })
      [] th.pc = "append" ->          \* memory["conversation_products"].append(name)
            { << [mem EXCEPT !.conversation_products = Append(@, th.arg)], x >> :
                 x \in FlowLoop(rest) }
      [] OTHER -> {}

Mems(S) == { r.st.mem : r \in S }
\* the memories two requests leave when handled one after the other
Serial(mem, m1, m2) ==
    UNION { Mems(chat(mid, m2)) : mid \in Mems(chat(mem, m1)) }

InitThreads ==
    /\ products = FullCatalog
    /\ memory = InitMemory
    /\ last = NoRequest
    /\ mentioned = {}
    /\ failed = FALSE
    /\ nreq = 0
    /\ fin = <<>>
    /\ fout = NoResult
    /\ \E m1, m2 \in ThreadMessages :
          /\ threads = << NewThread(m1), NewThread(m2) >>
          /\ serial = Serial(InitMemory, m1, m2) \cup Serial(InitMemory, m2, m1)

\* thread t makes its next step
Step(t) ==
    /\ threads[t].pc # "done"
    /\ \E s \in ThreadStep(memory, threads[t]) :
          /\ memory' = s[1]
          /\ threads' = [threads EXCEPT ![t] = s[2]]
    /\ UNCHANGED << products, last, mentioned, failed, nreq, fin, fout, serial >>

NextThreads == \E t \in ThreadIds : Step(t)
SpecThreads == InitThreads /\ [][NextThreads]_vars

-----------------------------------------------------------------------------
(* Inputs of the extraction functions: texts made of at most MaxChunks chunks *)
Chunks ==
   { <<"1","2","3","4","5">>,
     <<"5","4","3","2","1">>,
     <<"1">>,
     <<" ">>,
     <<"a">>,
     <<"-">>,
     <<"e","a","r","b","u","d">>,
     <<"C","a","m","e","r","a">>,
     N_Tracker }

RECURSIVE Texts(_)
Texts(n) ==
    IF n = 0 THEN { <<>> }
    ELSE LET T == Texts(n - 1) IN T \cup { t \o c : t \in T, c \in Chunks }

Observed(fn, r) ==
    [fn |-> fn, raised |-> r.raised, exc |-> r.exc, ret |-> r.ret, calls |-> r.st.calls]

InitExtract ==
    /\ products \in Catalogs
    /\ memory = InitMemory
    /\ last = NoRequest
    /\ mentioned = {}
    /\ failed = FALSE
    /\ nreq = 0
    /\ fin \in Texts(MaxChunks)
    /\ fout = NoResult
    /\ threads = << >>
    /\ serial = {}

RunExtractOrderId ==
    /\ fout = NoResult
    /\ \E r \in extract_order_id(State0(memory), fin) :
          fout' = Observed("extract_order_id", r)
    /\ UNCHANGED << products, memory, last, mentioned, failed, nreq, fin, threads, serial >>

RunExtractProduct ==
    /\ fout = NoResult
    /\ \E r \in extract_product_from_order_context(State0(memory), fin) :
          fout' = Observed("extract_product_from_order_context", r)
    /\ UNCHANGED << products, memory, last, mentioned, failed, nreq, fin, threads, serial >>

\* lines 606-623 of chat, entered with the message as it is
RunOrderIdMissing ==
    /\ fout = NoResult
    /\ \E r \in OrderIdMissing(State0(memory), fin) :
          fout' = [Observed("OrderIdMissing", r) EXCEPT !.ret = r.st.ctx_product]
    /\ UNCHANGED << products, memory, last, mentioned, failed, nreq, fin, threads, serial >>

NextExtract == RunExtractOrderId \/ RunExtractProduct \/ RunOrderIdMissing
SpecExtract == InitExtract /\ [][NextExtract]_vars

-----------------------------------------------------------------------------
(* tool_order_lookup called on its own: any order ID, any memory *)

OrderIdInputs == { KnownOrderId, "54321", "1234", "" }
Memories ==
    [conversation_products : { <<>>, << N_Earbuds >>, << N_Headphones, N_Earbuds >>,
                               << N_Invented >> },
     order_product : { None, N_Camera },
     last_intent : { None, "product", "order", "refund" },
     last_order_id : { None, KnownOrderId, "54321" }]

InitTools ==
    /\ products = FullCatalog
    /\ memory \in Memories
    /\ last = NoRequest
    /\ mentioned = {}
    /\ failed = FALSE
    /\ nreq = 0
    /\ fin \in OrderIdInputs
    /\ fout = NoResult
    /\ threads = << >>
    /\ serial = {}

RunOrderLookup ==
    /\ fout = NoResult
    /\ \E r \in tool_order_lookup(State0(memory), fin) :
          /\ fout' = Observed("tool_order_lookup", r)
          /\ memory' = r.st.mem
    /\ UNCHANGED << products, last, mentioned, failed, nreq, fin, threads, serial >>

NextTools == RunOrderLookup
SpecTools == InitTools /\ [][NextTools]_vars

-----------------------------------------------------------------------------
(* Claims about the extraction functions (checked under SpecExtract) *)

ModelDigits == {"1","2","3","4","5","6"}
\* every string of exactly five of the digits that occur in the model
FiveDigitStrings == { Str(t) : t \in [1..5 -> ModelDigits] }

\* a run of exactly five digits at i with no word character on either side
StandaloneAt(s, i) ==
    /\ i >= 1 /\ i + 4 <= Len(s)
    /\ \A j \in i..(i + 4) : s[j] \in Digits
    /\ (i = 1 \/ ~IsWordChar(s[i - 1]))
    /\ (i + 4 = Len(s) \/ ~IsWordChar(s[i + 5]))
StandalonePositions(s) == { i \in DOMAIN s : StandaloneAt(s, i) }

C5_ProductLayered ==
    LET lowered == Lower(fin)
        named == { i \in DOMAIN products :
                     Contains(lowered, Lower(Chars(products[i].name))) }
        keyed == { j \in DOMAIN keyword_map : Contains(lowered, keyword_map[j][1]) }
        asked == Count(fout.calls, "llm:extract_product_from_order_context")
    IN
    /\ fout.fn = "extract_product_from_order_context" =>
          /\ named # {} => asked = 0 /\ fout.ret \in { products[i].name : i \in named }
          /\ (named = {} /\ keyed # {}) =>
                asked = 0 /\ fout.ret \in { Str(keyword_map[j][2]) : j \in keyed }
          /\ (named = {} /\ keyed = {}) => asked = 1
          /\ ~fout.raised => fout.ret = None \/ InList(fout.ret, Names(products))
    /\ fout.fn = "OrderIdMissing" =>
          /\ ~(fout.raised /\ fout.exc = "StopIteration")
          /\ fout.ret # None => InList(fout.ret, Names(products))

-----------------------------------------------------------------------------
(* Claims about the /chat handler (checked under Spec) *)

Handled == last # NoRequest
Position(calls, fn) == Min({ i \in DOMAIN calls : calls[i] = fn })
Tools == { "tool_ai_product_explorer", "tool_product_lookup",
           "tool_order_lookup", "tool_refund_policy" }
\* the tool chat dispatched to has returned
ToolReturned(fname) == Handled /\ last.tool = fname /\ last.tool_ret # NoData

\* C1: a request in which a call of the language-model API throws still ends
\* with a reply: no request ends with the API's exception unhandled.
C1_ReplyDespiteApiFailure ==
    Handled => ~(last.raised /\ last.exc = "APIError")

\* C2: the referential branch resolves the pronoun to a product of the most
\* recent product answer (the latest result of a product tool, or the product
\* set by the order-ID-missing flow).
C2_ReferentIsLastMentioned ==
    (Handled /\ last.branch = "C" /\ ~last.failed_before /\ ~last.raised) =>
        last.referent \in last.mentioned_before

\* C6: when chat's tool has returned (or the summary was built),
\* natural_format is called exactly once, after the tool, with that tool's
\* data, and a reply that is returned is natural_format's output; only the
\* fallback section replies with text that natural_format did not produce.
C6_ToolResultsFormatted ==
    Handled =>
        LET formatted == Count(last.calls, "natural_format") IN
        /\ \A f \in Tools :
              ToolReturned(f) =>
                 /\ formatted = 1
                 /\ Position(last.calls, f) < Position(last.calls, "natural_format")
                 /\ last.nf_arg = last.tool_ret
        /\ last.branch = "A" => formatted = 1 /\ last.nf_arg.type = "summary"
        /\ (~last.raised /\ last.branch # "I") =>
              formatted = 1 /\ last.nf_ret # None /\ last.reply = last.nf_ret
        /\ last.branch = "I" => formatted = 0 /\ last.tool_ret = NoData

C6_Witness ==
    /\ ToolReturned("tool_product_lookup")
    /\ ~last.raised
    /\ last.reply = last.nf_ret
    /\ last.nf_arg.type = "product_info"

\* C7: whatever the model answers, tool_product_lookup returns, and what it
\* returns is a product_info with the name, price and stock of one catalog
\* product.
C7_LookupFactualAndTotal ==
    (Handled /\ last.tool = "tool_product_lookup") =>
        /\ last.tool_ret = NoData => last.raised /\ last.exc = "APIError"
        /\ last.tool_ret # NoData =>
              /\ last.tool_ret.type = "product_info"
              /\ \E i \in DOMAIN products :
                    /\ products[i].name = last.tool_ret.name
                    /\ products[i].price = last.tool_ret.price
                    /\ products[i].stock = last.tool_ret.stock

\* C8: after a tool returns, memory["last_intent"] is that tool's intent.
C8_LastIntentTracksTool ==
    /\ ToolReturned("tool_order_lookup") => memory.last_intent = "order"
    /\ ToolReturned("tool_refund_policy") => memory.last_intent = "refund"
    /\ ToolReturned("tool_ai_product_explorer") => memory.last_intent = "product"
    /\ ToolReturned("tool_product_lookup") => memory.last_intent = "product"

CatalogEntry(name) == products[CHOOSE i \in DOMAIN products : products[i].name = name]
C10_SummaryReadOnly ==
    (Handled /\ AnyIn(summary_keywords, Lower(last.msg))) =>
        LET known == SelectSeq(last.mem_before.conversation_products,
                               LAMBDA n : InList(n, Names(products)))
        IN
        /\ last.tool = ""
        /\ \A i \in DOMAIN last.calls :
              last.calls[i] \notin Tools \cup { "llm:ai_topic_recall", "llm:router" }
        /\ memory = last.mem_before
        /\ last.nf_arg = [type |-> "summary",
                          products |-> [k \in DOMAIN known |->
                                          [name |-> known[k],
                                           price |-> CatalogEntry(known[k]).price,
                                           stock |-> CatalogEntry(known[k]).stock]]]

\* a summary of a list that holds an invented name and two catalog names
C10_Witness ==
    /\ Handled /\ last.branch = "A" /\ ~last.raised
    /\ Len(last.nf_arg.products) = 2
    /\ Len(memory.conversation_products) = 3

-----------------------------------------------------------------------------
(* Claims about interleaved requests (checked under SpecThreads) *)

AllDone == \A t \in ThreadIds : threads[t].pc = "done"

\* C3: when two interleaved requests have both ended, memory is what one of
\* the two sequential orders of the same requests can leave.
C3_Serializable ==
    (threads # << >> /\ AllDone) => memory \in serial

-----------------------------------------------------------------------------
(* Claims about tool_order_lookup (checked under SpecTools) *)

\* C11: tool_order_lookup with an ID that is not a key of orders returns
\* exactly {type: order_info, error: "Order not found"}; with a known ID it
\* returns that order's status and delivery date; in both cases it sets
\* last_intent to "order" and last_order_id to the ID, and it leaves
\* conversation_products and order_product as they were.
C11_OrderLookup ==
    [][ fout'.fn = "tool_order_lookup" =>
          /\ ~fout'.raised
          /\ fin \notin DOMAIN orders =>
                fout'.ret = [type |-> "order_info", error |-> "Order not found"]
          /\ fin \in DOMAIN orders =>
                fout'.ret = [type |-> "order_info", order_id |-> fin,
                             status |-> orders[fin].status,
                             delivery |-> orders[fin].delivery_date]
          /\ memory'.last_intent = "order"
          /\ memory'.last_order_id = fin
          /\ memory'.conversation_products = memory.conversation_products
          /\ memory'.order_product = memory.order_product ]_vars

\* an unknown ID was looked up after a refund, with products discussed
C11_Witness ==
    /\ fout.fn = "tool_order_lookup"
    /\ fin \notin DOMAIN orders
    /\ DOMAIN fout.ret = { "type", "error" }
    /\ memory.last_order_id = fin
    /\ memory.last_intent = "order"
    /\ memory.conversation_products # <<>>
    /\ memory.order_product # None

-----------------------------------------------------------------------------
(* Claims about the history list (checked under Spec) *)

NoDuplicates(list) == \A i, j \in DOMAIN list : list[i] = list[j] => i = j
IsPrefix(old, new) == Len(old) <= Len(new) /\ SubSeq(new, 1, Len(old)) = old

\* C12: with requests handled one after the other, every step leaves
\* memory["conversation_products"] (empty at the start) without a repeated
\* name and with its earlier entries in place: the list is unchanged or has
\* names appended at its end.
C12_HistoryAppendOnly ==
    [][ /\ NoDuplicates(memory'.conversation_products)
        /\ IsPrefix(memory.conversation_products, memory'.conversation_products) ]_vars

\* a request whose answer holds a name discussed before and a new one: the
\* list grew, and the old name was not appended again
C12_Witness ==
    /\ Handled
    /\ last.mem_before.conversation_products # <<>>
    /\ Len(memory.conversation_products) > Len(last.mem_before.conversation_products)
    /\ \E n \in mentioned : InList(n, last.mem_before.conversation_products)
    /\ \E n \in mentioned : ~InList(n, last.mem_before.conversation_products)

=============================================================================
